---- MODULE Spec2Model ----
(***************************************************************************)
(* A model of the edged graph library: the traversal iterators             *)
(* (src/src/traversal), the dominance analysis (src/src/dominance.rs),     *)
(* the adjacency-matrix graph (src/src/graph/matrix.rs, graph/util.rs) and *)
(* the adjacency-list graph (src/src/archive/adjlist.rs).                  *)
(*                                                                         *)
(* Rust vectors are modelled as TLA+ sequences; the Rust index i is the    *)
(* sequence position i + 1.  Option<usize> is modelled as an integer with  *)
(* None == -1; an empty matrix slot (Option<E> = None) is the weight 0.    *)
(***************************************************************************)
EXTENDS Integers, Sequences, FiniteSets, TLC

\* Number of vertices of the enumerated input graphs.
MaxNodes == 3
\* Length of the edge streams the enumerated input graphs are built from.
MaxEdges == 3
\* Number of update_edge and remove_edge calls made on the matrix graph.
MaxCalls == 3
\* Largest vertex index passed to the matrix graph.
MaxVertex == 4
\* Largest capacity the matrix graph is constructed with.
MaxInitCapacity == 2
\* Largest capacity of a matrix that is grown, and largest it is grown to.
MaxOldCapacity == 3
MaxNewCapacity == 5
\* Adjacency-list graph: pushes made, largest ordinary vertex index, and the
\* width of usize in bits.
MaxPushes == 3
MaxAdjVertex == 2
UsizeBits == 4
\* Matrix graphs that are scanned: update_edge calls that build them and
\* largest vertex index passed.
MaxScanEdges == 2
MaxScanVertex == 4

VARIABLES graph, start, levelorder, preorder, postorder, topological, dom, matrix, grow,
          adjlist

vars == <<graph, start, levelorder, preorder, postorder, topological, dom, matrix, grow,
          adjlist>>

None == -1

Max(a, b) == IF a >= b THEN a ELSE b

Range(s) == {s[i] : i \in 1..Len(s)}

Last(s) == s[Len(s)]

Front(s) == SubSeq(s, 1, Len(s) - 1)

-----------------------------------------------------------------------------
(* Input graphs.  A graph is what the capability traits show of it: its    *)
(* node count and, per vertex, the sequence its children iterator yields.  *)

\* The increasing sequence of the elements of a finite set of naturals.
RECURSIVE SortedSeq(_)
SortedSeq(S) ==
    IF S = {} THEN <<>>
    ELSE LET m == CHOOSE x \in S : \A y \in S : x <= y
         IN <<m>> \o SortedSeq(S \ {m})

\* The targets of the edges of stream es that leave v, in stream order.
RECURSIVE TargetsOf(_, _)
TargetsOf(es, v) ==
    IF es = <<>> THEN <<>>
    ELSE (IF Head(es)[1] = v THEN <<Head(es)[2]>> ELSE <<>>) \o TargetsOf(Tail(es), v)

\* A graph with n vertices whose children are yielded in edge-stream order
\* (parallel edges are yielded once per edge).
StreamGraph(n, es) ==
    [node_count |-> n, children |-> [v \in 0..(n - 1) |-> TargetsOf(es, v)]]

\* The matrix graph built from a set of edges: one slot per ordered pair,
\* children yielded in increasing index order, node count is max index + 1.
MatrixGraphOf(E) ==
    LET n == 1 + CHOOSE m \in {e[1] : e \in E} \cup {e[2] : e \in E} :
                    \A e \in E : e[1] <= m /\ e[2] <= m
    IN [node_count |-> n,
        children |-> [v \in 0..(n - 1) |-> SortedSeq({e[2] : e \in {d \in E : d[1] = v}})]]

EdgeStreams ==
    UNION {[1..m -> (0..(MaxNodes - 1)) \X (0..(MaxNodes - 1))] : m \in 0..MaxEdges}

\* The graphs of the repository's tests.
TreeEdges == {<<1, 3>>, <<1, 2>>, <<2, 4>>, <<3, 6>>, <<3, 5>>, <<5, 8>>, <<5, 7>>}
CycleEdges == {<<2, 3>>, <<2, 4>>, <<4, 1>>, <<1, 2>>}
TopoEdges == {<<0, 1>>, <<1, 2>>, <<0, 3>>, <<3, 1>>, <<3, 5>>, <<3, 4>>, <<4, 5>>}
CooperEdges == {<<6, 5>>, <<6, 4>>, <<5, 1>>, <<4, 2>>, <<4, 3>>, <<1, 2>>, <<2, 3>>,
                <<2, 1>>, <<3, 2>>}
FrontierEdges == {<<0, 1>>, <<1, 2>>, <<1, 3>>, <<2, 4>>, <<3, 4>>, <<4, 5>>, <<0, 5>>}

WikipediaEdges == {<<1, 2>>, <<2, 3>>, <<2, 4>>, <<2, 6>>, <<3, 5>>, <<4, 5>>, <<5, 2>>}
LoopEdges == {<<1, 2>>, <<2, 3>>, <<2, 4>>, <<3, 5>>, <<4, 6>>, <<5, 3>>, <<5, 6>>, <<6, 2>>,
              <<6, 7>>}

\* A graph whose vertex 3 is reached before its siblings 1 and 2, which are
\* also its children.
FanEdges == {<<0, 1>>, <<0, 2>>, <<0, 3>>, <<3, 1>>, <<3, 2>>}

TestGraphs ==
    {MatrixGraphOf(E) : E \in {TreeEdges, CycleEdges, TopoEdges, CooperEdges, FrontierEdges,
                               WikipediaEdges, LoopEdges}}

Graphs == {StreamGraph(MaxNodes, es) : es \in EdgeStreams} \cup TestGraphs

node_count(g) == g.node_count

\* Children::children: absent vertices yield the empty sequence.
children(g, v) == IF v \in DOMAIN g.children THEN g.children[v] ELSE <<>>

-----------------------------------------------------------------------------
(* util.rs and graph/visit_map.rs                                          *)

\* ensure_len: append the default value d until the length is size.
ensure_len(v, size, d) ==
    IF size > Len(v) THEN v \o [i \in 1..(size - Len(v)) |-> d] ELSE v

\* VisitMap::visit: grows the map, marks node, reports a first visit.
visit(map, node) ==
    LET m == ensure_len(map, node + 1, FALSE)
    IN IF m[node + 1] THEN [first |-> FALSE, map |-> m]
       ELSE [first |-> TRUE, map |-> [m EXCEPT ![node + 1] = TRUE]]

\* VisitMap::is_visited: false for nodes beyond the map.
is_visited(map, node) == node + 1 <= Len(map) /\ map[node + 1]

-----------------------------------------------------------------------------
(* traversal/levelorder.rs                                                 *)

LevelOrder_new(g, s) ==
    [queue |-> <<s>>, discovered |-> <<>>, out |-> <<>>, exhausted |-> FALSE]

\* A newly discovered child is put at the front of the queue.
RECURSIVE LevelOrder_scan_push_front(_, _, _)
LevelOrder_scan_push_front(succs, queue, discovered) ==
    IF succs = <<>> THEN [queue |-> queue, discovered |-> discovered]
    ELSE LET r == visit(discovered, Head(succs))
         IN LevelOrder_scan_push_front(Tail(succs),
                IF r.first THEN <<Head(succs)>> \o queue ELSE queue,
                r.map)

\* The body of the for loop of next over the children succs.
RECURSIVE LevelOrder_scan(_, _, _)
LevelOrder_scan(succs, queue, discovered) ==
    IF succs = <<>> THEN [queue |-> queue, discovered |-> discovered]
    ELSE LET r == visit(discovered, Head(succs))
         IN LevelOrder_scan(Tail(succs),
                            IF r.first THEN Append(queue, Head(succs)) ELSE queue,
                            r.map)

\* out collects the values next has returned; exhausted records a None.
LevelOrder_next(it, g) ==
    IF it.queue = <<>> THEN [it EXCEPT !.exhausted = TRUE]
    ELSE LET node == Head(it.queue)
             r == LevelOrder_scan(children(g, node), Tail(it.queue), it.discovered)
         IN [queue |-> r.queue, discovered |-> r.discovered,
             out |-> Append(it.out, node), exhausted |-> FALSE]

\* LevelOrder::new(graph, start).collect(): every value until the first None.
RECURSIVE LevelOrder_collect(_, _)
LevelOrder_collect(it, g) ==
    IF it.exhausted THEN it.out ELSE LevelOrder_collect(LevelOrder_next(it, g), g)

-----------------------------------------------------------------------------
(* traversal/preorder.rs                                                   *)

PreOrder_new_unmarked(g, s) ==
    [stack |-> <<s>>, discovered |-> <<>>, out |-> <<>>, exhausted |-> FALSE]

PreOrder_new(g, s) ==
    [stack |-> <<s>>, discovered |-> visit(<<>>, s).map, out |-> <<>>,
     exhausted |-> FALSE]

RECURSIVE PreOrder_scan(_, _, _)
PreOrder_scan(succs, stack, discovered) ==
    IF succs = <<>> THEN [stack |-> stack, discovered |-> discovered]
    ELSE LET r == visit(discovered, Head(succs))
         IN PreOrder_scan(Tail(succs),
                          IF r.first THEN Append(stack, Head(succs)) ELSE stack,
                          r.map)

PreOrder_next(it, g) ==
    IF it.stack = <<>> THEN [it EXCEPT !.exhausted = TRUE]
    ELSE LET node == Last(it.stack)
             r == PreOrder_scan(children(g, node), Front(it.stack), it.discovered)
         IN [stack |-> r.stack, discovered |-> r.discovered,
             out |-> Append(it.out, node), exhausted |-> FALSE]

\* PreOrder::new(graph, start).collect().
RECURSIVE PreOrder_collect(_, _)
PreOrder_collect(it, g) ==
    IF it.exhausted THEN it.out ELSE PreOrder_collect(PreOrder_next(it, g), g)

-----------------------------------------------------------------------------
(* traversal/postorder.rs                                                  *)

PostOrder_new(g, s) ==
    [stack |-> <<s>>, discovered |-> <<>>, finished |-> <<>>, out |-> <<>>,
     exhausted |-> FALSE]

\* Every child is pushed, discovered or not.
RECURSIVE PostOrder_push_all(_, _, _)
PostOrder_push_all(succs, stack, discovered) ==
    IF succs = <<>> THEN stack
    ELSE PostOrder_push_all(Tail(succs), Append(stack, Head(succs)), discovered)

\* Push every child that is not yet discovered.
RECURSIVE PostOrder_push(_, _, _)
PostOrder_push(succs, stack, discovered) ==
    IF succs = <<>> THEN stack
    ELSE PostOrder_push(Tail(succs),
                        IF ~is_visited(discovered, Head(succs))
                        THEN Append(stack, Head(succs)) ELSE stack,
                        discovered)

\* A pop yields the node whether or not it was finished before.
PostOrder_pop_unchecked(it, node) ==
    [it EXCEPT !.stack = Front(it.stack), !.finished = visit(it.finished, node).map,
               !.out = Append(it.out, node), !.exhausted = FALSE, !.returned = TRUE]

\* The else branch of the loop: pop, and return the node on its first finish.
PostOrder_pop(it, node) ==
    LET f == visit(it.finished, node)
    IN IF f.first
       THEN [it EXCEPT !.stack = Front(it.stack), !.finished = f.map,
                       !.out = Append(it.out, node), !.exhausted = FALSE,
                       !.returned = TRUE]
       ELSE [it EXCEPT !.stack = Front(it.stack), !.finished = f.map]

\* The while loop of next; returned marks that the call has returned.
RECURSIVE PostOrder_loop(_, _)
PostOrder_loop(it, g) ==
    IF it.returned THEN it
    ELSE IF it.stack = <<>> THEN [it EXCEPT !.exhausted = TRUE, !.returned = TRUE]
    ELSE LET node == Last(it.stack)
             d == visit(it.discovered, node)
         IN IF d.first
            THEN PostOrder_loop([it EXCEPT !.discovered = d.map,
                                           !.stack = PostOrder_push(children(g, node),
                                                                    it.stack, d.map)], g)
            ELSE PostOrder_loop(PostOrder_pop([it EXCEPT !.discovered = d.map], node), g)

PostOrder_next(it, g) ==
    LET r == PostOrder_loop([stack |-> it.stack, discovered |-> it.discovered,
                             finished |-> it.finished, out |-> it.out,
                             exhausted |-> it.exhausted, returned |-> FALSE], g)
    IN [stack |-> r.stack, discovered |-> r.discovered, finished |-> r.finished,
        out |-> r.out, exhausted |-> r.exhausted]

\* PostOrder::new(graph, start).collect(): the whole post-order.
RECURSIVE PostOrder_collect(_, _)
PostOrder_collect(it, g) ==
    IF it.exhausted THEN it.out ELSE PostOrder_collect(PostOrder_next(it, g), g)

-----------------------------------------------------------------------------
(* traversal/topological.rs                                                *)

\* Parallel edges to a child are counted as one.
RECURSIVE CountChildren_once_per_child(_, _)
CountChildren_once_per_child(succs, in_degree) ==
    IF succs = <<>> THEN in_degree
    ELSE CountChildren_once_per_child(
             SelectSeq(Tail(succs), LAMBDA c : c # Head(succs)),
             [in_degree EXCEPT ![Head(succs) + 1] = @ + 1])

\* The in-degree table after counting the children succs of one node.
RECURSIVE CountChildren(_, _)
CountChildren(succs, in_degree) ==
    IF succs = <<>> THEN in_degree
    ELSE CountChildren(Tail(succs),
                       [in_degree EXCEPT ![Head(succs) + 1] = @ + 1])

\* A vertex's edges to itself are left out of the count.
RECURSIVE CountAll_skip_self_loops(_, _, _)
CountAll_skip_self_loops(g, node, in_degree) ==
    IF node >= node_count(g) THEN in_degree
    ELSE CountAll_skip_self_loops(g, node + 1,
             CountChildren(SelectSeq(children(g, node), LAMBDA c : c # node), in_degree))

\* The outer loop of new: nodes node..node_count-1 still to be scanned.
RECURSIVE CountAll(_, _, _)
CountAll(g, node, in_degree) ==
    IF node >= node_count(g) THEN in_degree
    ELSE CountAll(g, node + 1, CountChildren(children(g, node), in_degree))

\* The indices of the zero entries, in increasing order.
ZeroDegree(in_degree) ==
    SortedSeq({i \in 0..(Len(in_degree) - 1) : in_degree[i + 1] = 0})

Topological_new(g) ==
    LET in_degree == CountAll(g, 0, [i \in 1..node_count(g) |-> 0])
    IN [in_degree |-> in_degree, stack |-> ZeroDegree(in_degree), out |-> <<>>,
        exhausted |-> FALSE, underflow |-> FALSE]

\* The child is pushed after every decrement, not only at zero.
Topological_visit_eager(child, in_degree, stack) ==
    [in_degree |-> [in_degree EXCEPT ![child + 1] = @ - 1],
     stack |-> Append(stack, child)]

\* One iteration of the for loop of next.
Topological_visit(child, in_degree, stack) ==
    LET d == [in_degree EXCEPT ![child + 1] = @ - 1]
    IN [in_degree |-> d,
        stack |-> IF d[child + 1] = 0 THEN Append(stack, child) ELSE stack]

\* The for loop of next; a decrement of a zero in-degree is an arithmetic
\* underflow, recorded in underflow (the loop is cut there).
RECURSIVE Topological_scan(_, _, _)
Topological_scan(succs, in_degree, stack) ==
    IF succs = <<>> THEN [in_degree |-> in_degree, stack |-> stack, underflow |-> FALSE]
    ELSE IF in_degree[Head(succs) + 1] = 0
         THEN [in_degree |-> in_degree, stack |-> stack, underflow |-> TRUE]
         ELSE LET r == Topological_visit(Head(succs), in_degree, stack)
              IN Topological_scan(Tail(succs), r.in_degree, r.stack)

\* At the end the stack is seeded again with the vertices of in-degree zero.
Topological_next_reseeding(it, g) ==
    IF it.underflow THEN it
    ELSE IF it.stack = <<>>
         THEN [it EXCEPT !.exhausted = TRUE, !.stack = ZeroDegree(it.in_degree)]
    ELSE LET node == Last(it.stack)
             r == Topological_scan(children(g, node), it.in_degree, Front(it.stack))
         IN [in_degree |-> r.in_degree, stack |-> r.stack,
             out |-> Append(it.out, node), exhausted |-> FALSE,
             underflow |-> r.underflow]

Topological_next(it, g) ==
    IF it.underflow THEN it
    ELSE IF it.stack = <<>> THEN [it EXCEPT !.exhausted = TRUE]
    ELSE LET node == Last(it.stack)
             r == Topological_scan(children(g, node), it.in_degree, Front(it.stack))
         IN [in_degree |-> r.in_degree, stack |-> r.stack,
             out |-> Append(it.out, node), exhausted |-> FALSE,
             underflow |-> r.underflow]

\* Topological::new(graph).collect(); an arithmetic underflow ends it.
RECURSIVE Topological_collect(_, _)
Topological_collect(it, g) ==
    IF it.exhausted \/ it.underflow THEN it.out
    ELSE Topological_collect(Topological_next(it, g), g)

-----------------------------------------------------------------------------
(* dominance.rs                                                            *)

\* Parents::parents: the sources of the edges into v, by increasing index,
\* once per edge.
RECURSIVE ParentsFrom(_, _, _)
ParentsFrom(g, v, u) ==
    IF u >= node_count(g) THEN <<>>
    ELSE [i \in 1..Len(SelectSeq(children(g, u), LAMBDA c : c = v)) |-> u]
         \o ParentsFrom(g, v, u + 1)

parents(g, v) == ParentsFrom(g, v, 0)

\* A walk that can never end: the loop of the code would not return.
Diverges == -2

\* nearest_common_dominator (po is its postorder argument); None when an expect on a missing dominator
\* panics, Diverges when neither finger can advance.
RECURSIVE nearest_common_dominator(_, _, _, _)
nearest_common_dominator(dominators, po, finger1, finger2) ==
    IF finger1 = finger2 THEN finger1
    ELSE IF po[finger1 + 1] < po[finger2 + 1]
         THEN IF dominators[finger1 + 1] = None THEN None
              ELSE nearest_common_dominator(dominators, po,
                                            dominators[finger1 + 1], finger2)
    ELSE IF po[finger2 + 1] < po[finger1 + 1]
         THEN IF dominators[finger2 + 1] = None THEN None
              ELSE nearest_common_dominator(dominators, po, finger1,
                                            dominators[finger2 + 1])
    ELSE Diverges

\* Iterator::reduce over the predecessors preds, acc the value so far.
RECURSIVE reduce(_, _, _, _)
reduce(preds, acc, dominators, po) ==
    IF preds = <<>> \/ acc < 0 THEN acc
    ELSE reduce(Tail(preds),
                nearest_common_dominator(dominators, po, acc, Head(preds)),
                dominators, po)

\* The first predecessor with a known dominator, without the reduction.
new_idom_first(g, node, dominators, po) ==
    LET preds == SelectSeq(parents(g, node), LAMBDA p : dominators[p + 1] # None)
    IN IF preds = <<>> THEN None ELSE Head(preds)

\* new_idom of the for loop: the predecessors with a known dominator,
\* reduced by nearest_common_dominator; None when there is none.
new_idom(g, node, dominators, po) ==
    LET preds == SelectSeq(parents(g, node), LAMBDA p : dominators[p + 1] # None)
    IN IF preds = <<>> THEN None
       ELSE reduce(Tail(preds), Head(preds), dominators, po)

\* The loop that fills postorder_idx, from index i of the post-order on.
RECURSIVE postorder_idx_fill(_, _, _)
postorder_idx_fill(order, i, idx) ==
    IF i >= Len(order) THEN idx
    ELSE postorder_idx_fill(order, i + 1, [idx EXCEPT ![order[i + 1] + 1] = i])

\* postorder_idx: each node's index in the post-order, 0 for the others.
postorder_idx(g, order) ==
    postorder_idx_fill(order, 0, [k \in 1..node_count(g) |-> 0])

Reverse(s) == [i \in 1..Len(s) |-> s[Len(s) + 1 - i]]

\* The order is left as the post-order without start, not reversed.
immediate_dominators_begin_unreversed(g, s) ==
    LET po == PostOrder_collect(PostOrder_new(g, s), g)
    IN [pc |-> "loop",
        order |-> Front(po),
        postorder_idx |-> postorder_idx(g, po),
        dominators |-> [k \in 1..node_count(g) |-> IF k - 1 = s THEN s ELSE None],
        changed |-> TRUE,
        passes |-> 0,
        assert_failed |-> FALSE,
        panicked |-> FALSE,
        frontiers |-> <<>>]

\* The state of immediate_dominators when it enters its while loop.
\* assert_failed records a failed debug_assert (a release build goes on),
\* panicked a failed expect.
immediate_dominators_begin(g, s) ==
    LET po == PostOrder_collect(PostOrder_new(g, s), g)
    IN [pc |-> "loop",
        order |-> Reverse(Front(po)),
        postorder_idx |-> postorder_idx(g, po),
        dominators |-> [k \in 1..node_count(g) |-> IF k - 1 = s THEN s ELSE None],
        changed |-> TRUE,
        passes |-> 0,
        assert_failed |-> FALSE,
        panicked |-> FALSE,
        frontiers |-> <<>>]

\* The for loop of one pass over the nodes still to be processed.
RECURSIVE dominators_for(_, _, _)
dominators_for(g, nodes, d) ==
    IF nodes = <<>> \/ d.panicked THEN d
    ELSE LET node == Head(nodes)
             idom == new_idom(g, node, d.dominators, d.postorder_idx)
         IN IF idom = Diverges \/ (idom = None /\
                  SelectSeq(parents(g, node), LAMBDA p : d.dominators[p + 1] # None) # <<>>)
            THEN [d EXCEPT !.panicked = TRUE]
            ELSE dominators_for(g, Tail(nodes),
                    [d EXCEPT !.assert_failed = @ \/ idom = None,
                              !.changed = @ \/ d.dominators[node + 1] # idom,
                              !.dominators[node + 1] = idom])

\* The while loop is never left: changed is taken as set after every pass.
dominators_pass_never_settles(g, d) ==
    LET r == dominators_for(g, d.order, [d EXCEPT !.changed = FALSE])
    IN [r EXCEPT !.passes = @ + 1, !.changed = TRUE,
                 !.pc = IF r.panicked THEN "panic" ELSE "loop"]

\* One iteration of the while loop; the loop is left when nothing changed.
dominators_pass(g, d) ==
    LET r == dominators_for(g, d.order, [d EXCEPT !.changed = FALSE])
    IN [r EXCEPT !.passes = @ + 1,
                 !.pc = IF r.panicked THEN "panic"
                        ELSE IF r.changed THEN "loop" ELSE "done"]

\* The walk adds node to the frontier of the predecessor only.
frontiers_walk_once(finger, node, idoms, f) ==
    IF finger = idoms[node + 1] THEN f
    ELSE [f EXCEPT !.frontiers[finger + 1] = Append(@, node)]

\* The while loop of frontiers: from finger up the dominator chain to the
\* immediate dominator of node.
RECURSIVE frontiers_walk(_, _, _, _)
frontiers_walk(finger, node, idoms, f) ==
    IF finger = idoms[node + 1] THEN f
    ELSE LET g1 == [f EXCEPT !.frontiers[finger + 1] = Append(@, node)]
         IN IF idoms[finger + 1] = None \/ idoms[finger + 1] = finger
            THEN [g1 EXCEPT !.panicked = TRUE]
            ELSE frontiers_walk(idoms[finger + 1], node, idoms, g1)

\* for &predecessor in &predecessors
RECURSIVE frontiers_preds(_, _, _, _)
frontiers_preds(preds, node, idoms, f) ==
    IF preds = <<>> \/ f.panicked THEN f
    ELSE frontiers_preds(Tail(preds), node, idoms,
                         frontiers_walk(Head(preds), node, idoms, f))

\* for node in 0..graph.node_count()
RECURSIVE frontiers_nodes(_, _, _, _)
frontiers_nodes(g, node, idoms, f) ==
    IF node >= node_count(g) \/ f.panicked THEN f
    ELSE frontiers_nodes(g, node + 1, idoms,
            IF Len(parents(g, node)) >= 2
            THEN frontiers_preds(parents(g, node), node, idoms, f)
            ELSE f)

\* frontiers, given the result idoms of immediate_dominators.
frontiers(g, idoms) ==
    frontiers_nodes(g, 0, idoms,
                    [frontiers |-> [k \in 1..node_count(g) |-> <<>>], panicked |-> FALSE])

-----------------------------------------------------------------------------
(* graph/util.rs: the linearized adjacency matrix                          *)

\* An empty slot of the matrix: Option<E> = None, the Default of the slots.
Empty == 0

to_flat_square_matrix_position(row, column, width) == row * width + column

\* The position computed from the pair as given, without ordering it.
to_lower_triangular_matrix_position_unordered(row, column) ==
    (row * (row + 1)) \div 2 + column

to_lower_triangular_matrix_position(row, column) ==
    LET long == IF row > column THEN row ELSE column
        short == IF row > column THEN column ELSE row
    IN (long * (long + 1)) \div 2 + short

\* directed stands for the type parameter Ty.
to_linear_matrix_position(directed, row, column, width) ==
    IF directed THEN to_flat_square_matrix_position(row, column, width)
    ELSE to_lower_triangular_matrix_position(row, column)

\* slice::swap of the Rust indices x and y.
swap(v, x, y) == [v EXCEPT ![x + 1] = v[y + 1], ![y + 1] = v[x + 1]]

\* ptr::swap_nonoverlapping of the count elements at x with those at y;
\* the caller guarantees that the two regions do not overlap.
swap_nonoverlapping(v, x, y, count) ==
    [k \in 1..Len(v) |->
        IF x <= k - 1 /\ k - 1 < x + count THEN v[k - x + y]
        ELSE IF y <= k - 1 /\ k - 1 < y + count THEN v[k - y + x]
        ELSE v[k]]

\* for i in (0..old_node_capacity).rev(): the swaps for i, i - 1, ..., 0.
RECURSIVE swap_elements(_, _, _, _)
swap_elements(v, pos, new_pos, i) ==
    IF i < 0 THEN v
    ELSE swap_elements(swap(v, pos + i, new_pos + i), pos, new_pos, i - 1)

\* The relocation of row c; m carries the vector and which branch ran, and
\* whether a debug assertion of the block branch failed.
relocate_row(m, c, old_node_capacity, new_node_capacity) ==
    LET pos == c * old_node_capacity
        new_pos == c * new_node_capacity
    IN IF pos + old_node_capacity <= new_pos
       THEN [m EXCEPT !.adj = swap_nonoverlapping(m.adj, pos, new_pos, old_node_capacity),
                      !.block = TRUE,
                      !.assert_failed = @ \/ ~(pos + old_node_capacity < Len(m.adj))
                                          \/ ~(new_pos + old_node_capacity < Len(m.adj))]
       ELSE [m EXCEPT !.adj = swap_elements(m.adj, pos, new_pos, old_node_capacity - 1),
                      !.elementwise = TRUE]

\* The rows relocated in increasing index order: row 1 first.
RECURSIVE relocate_rows_ascending(_, _, _, _)
relocate_rows_ascending(m, c, old_node_capacity, new_node_capacity) ==
    IF c < 1 THEN m
    ELSE relocate_rows_ascending(relocate_row(m, old_node_capacity - c,
                                              old_node_capacity, new_node_capacity),
                                 c - 1, old_node_capacity, new_node_capacity)

\* for c in (1..old_node_capacity).rev(): rows c, c - 1, ..., 1.
RECURSIVE relocate_rows(_, _, _, _)
relocate_rows(m, c, old_node_capacity, new_node_capacity) ==
    IF c < 1 THEN m
    ELSE relocate_rows(relocate_row(m, c, old_node_capacity, new_node_capacity),
                       c - 1, old_node_capacity, new_node_capacity)

extend_flat_square_matrix(node_adjacencies, old_node_capacity, new_node_capacity) ==
    relocate_rows([adj |-> ensure_len(node_adjacencies,
                                      new_node_capacity * new_node_capacity, Empty),
                   block |-> FALSE, elementwise |-> FALSE, assert_failed |-> FALSE],
                  old_node_capacity - 1, old_node_capacity, new_node_capacity)

extend_lower_triangular_matrix(node_adjacencies, new_capacity) ==
    ensure_len(node_adjacencies,
               (new_capacity * (new_capacity - 1)) \div 2 + new_capacity + 1, Empty)

extend_linearized_matrix(directed, node_adjacencies, old_node_capacity, new_capacity) ==
    IF directed
    THEN extend_flat_square_matrix(node_adjacencies, old_node_capacity, new_capacity).adj
    ELSE extend_lower_triangular_matrix(node_adjacencies, new_capacity)

-----------------------------------------------------------------------------
(* graph/matrix.rs                                                         *)

\* MIN_NON_ZERO_CAP for an edge weight type E whose Option<E> is wider than
\* one byte.
MIN_NON_ZERO_CAP == 4

NoCall == [op |-> "new", a |-> 0, b |-> 0, weight |-> Empty, result |-> "ok",
           returned |-> Empty]

\* Graph::new; call records the last call on the graph and its outcome,
\* calls and grown count the calls made and the growths of the storage.
Graph_new(directed) ==
    [adjacencies |-> <<>>, len |-> 0, capacity |-> 0, n_edges |-> 0,
     directed |-> directed, call |-> NoCall, calls |-> 0, grown |-> 0]

\* extend_linear_matrix::<Ty, Option<E>>(&mut self.adjacencies, capacity) and
\* the assignment of its result to self.capacity.
extend_linear_matrix(g, capacity) ==
    [g EXCEPT !.adjacencies = extend_linearized_matrix(g.directed, g.adjacencies,
                                                       g.capacity, capacity),
              !.capacity = capacity,
              !.grown = @ + 1]

\* capacity.wrapping_sub(len) exceeds every additional when len > capacity.
needs_to_grow(g, additional) ==
    IF g.capacity >= g.len THEN additional > g.capacity - g.len ELSE FALSE

reserve(g, additional) ==
    IF needs_to_grow(g, additional)
    THEN LET required_cap == g.len + additional
             capacity == Max(MIN_NON_ZERO_CAP, Max(g.capacity * 2, required_cap))
         IN extend_linear_matrix(g, capacity)
    ELSE g

reserve_exact(g, additional) ==
    IF needs_to_grow(g, additional)
    THEN extend_linear_matrix(g, g.len + additional)
    ELSE g

with_capacity(directed, capacity) ==
    [reserve_exact(Graph_new(directed), capacity) EXCEPT !.grown = 0]

to_edge_position_unchecked(g, a, b) ==
    to_linear_matrix_position(g.directed, a, b, g.capacity)

\* The edge counter is incremented whether or not the slot held an edge.
update_edge_always_counts(g, a, b, weight) ==
    LET additional == Max(Max(a + 1, b + 1), g.capacity) - g.capacity
        r == reserve(g, additional)
        index == to_edge_position_unchecked(r, a, b)
        call == [op |-> "update_edge", a |-> a, b |-> b, weight |-> weight,
                 result |-> "ok", returned |-> Empty]
    IN IF index >= Len(r.adjacencies)
       THEN [r EXCEPT !.call = [call EXCEPT !.result = "panic"], !.calls = @ + 1]
       ELSE [r EXCEPT !.adjacencies[index + 1] = weight,
                      !.n_edges = @ + 1,
                      !.call = call, !.calls = @ + 1]

\* update_edge; an index beyond the vector panics (result "panic") after
\* the reservation has been made.
update_edge(g, a, b, weight) ==
    LET additional == Max(Max(a + 1, b + 1), g.capacity) - g.capacity
        r == reserve(g, additional)
        index == to_edge_position_unchecked(r, a, b)
        call == [op |-> "update_edge", a |-> a, b |-> b, weight |-> weight,
                 result |-> "ok", returned |-> Empty]
    IN IF index >= Len(r.adjacencies)
       THEN [r EXCEPT !.call = [call EXCEPT !.result = "panic"], !.calls = @ + 1]
       ELSE [r EXCEPT !.adjacencies[index + 1] = weight,
                      !.n_edges = IF r.adjacencies[index + 1] = Empty THEN @ + 1 ELSE @,
                      !.call = call, !.calls = @ + 1]

\* The edge counter is decremented whether or not the slot held an edge.
remove_edge_always_decrements(g, a, b) ==
    LET index == to_edge_position_unchecked(g, a, b)
        call == [op |-> "remove_edge", a |-> a, b |-> b, weight |-> Empty,
                 result |-> "ok", returned |-> Empty]
    IN IF index >= Len(g.adjacencies)
       THEN [g EXCEPT !.call = [call EXCEPT !.result = "panic"], !.calls = @ + 1]
       ELSE [g EXCEPT !.adjacencies[index + 1] = Empty,
                      !.n_edges = @ - 1,
                      !.call = [call EXCEPT !.returned = g.adjacencies[index + 1]],
                      !.calls = @ + 1]

\* remove_edge; returned is the old content of the slot (Empty for None).
remove_edge(g, a, b) ==
    LET index == to_edge_position_unchecked(g, a, b)
        call == [op |-> "remove_edge", a |-> a, b |-> b, weight |-> Empty,
                 result |-> "ok", returned |-> Empty]
    IN IF index >= Len(g.adjacencies)
       THEN [g EXCEPT !.call = [call EXCEPT !.result = "panic"], !.calls = @ + 1]
       ELSE [g EXCEPT !.adjacencies[index + 1] = Empty,
                      !.n_edges = IF g.adjacencies[index + 1] # Empty THEN @ - 1 ELSE @,
                      !.call = [call EXCEPT !.returned = g.adjacencies[index + 1]],
                      !.calls = @ + 1]

-----------------------------------------------------------------------------
(* graph/matrix.rs: the Edges iterator                                     *)

\* Edges::on_columns: the row is fixed and the column varies.
Edges_on_columns(row, node_capacity) ==
    [iter_direction |-> "Columns", node_capacity |-> node_capacity,
     row |-> row, column |-> 0]

\* Edges::on_rows: the column is fixed and the row varies.
Edges_on_rows(column, node_capacity) ==
    [iter_direction |-> "Rows", node_capacity |-> node_capacity,
     row |-> 0, column |-> column]

\* The pair is (row, column) in either direction.
Edges_item_unswapped(iter_direction, row, column, e) == <<row, column, e>>

\* The item (a, b, e) that next returns for the slot at (row, column).
Edges_item(iter_direction, row, column, e) ==
    IF iter_direction = "Rows" THEN <<column, row, e>> ELSE <<row, column, e>>

\* Edges::next over the adjacencies of a directed or undirected graph; an
\* index beyond the slice panics.
RECURSIVE Edges_next(_, _, _)
Edges_next(it, node_adjacencies, directed) ==
    IF Max(it.row, it.column) >= it.node_capacity
    THEN [some |-> FALSE, panicked |-> FALSE, item |-> <<>>, it |-> it]
    ELSE LET moved == IF it.iter_direction = "Rows"
                      THEN [it EXCEPT !.row = @ + 1]
                      ELSE [it EXCEPT !.column = @ + 1]
             p == to_linear_matrix_position(directed, it.row, it.column,
                                            it.node_capacity)
         IN IF p >= Len(node_adjacencies)
            THEN [some |-> FALSE, panicked |-> TRUE, item |-> <<>>, it |-> moved]
            ELSE IF node_adjacencies[p + 1] # Empty
                 THEN [some |-> TRUE, panicked |-> FALSE,
                       item |-> Edges_item(it.iter_direction, it.row, it.column,
                                           node_adjacencies[p + 1]),
                       it |-> moved]
                 ELSE Edges_next(moved, node_adjacencies, directed)

\* collect() of an Edges iterator: the items and whether a next panicked.
RECURSIVE Edges_collect(_, _, _)
Edges_collect(it, node_adjacencies, directed) ==
    LET r == Edges_next(it, node_adjacencies, directed)
    IN IF r.some
       THEN LET rest == Edges_collect(r.it, node_adjacencies, directed)
            IN [items |-> <<r.item>> \o rest.items, panicked |-> rest.panicked]
       ELSE [items |-> <<>>, panicked |-> r.panicked]

-----------------------------------------------------------------------------
(* archive/adjlist.rs: the adjacency-list graph                            *)

\* usize has UsizeBits bits.
usize_MAX == 2 ^ UsizeBits - 1

saturating_add(x, y) == IF x + y > usize_MAX THEN usize_MAX ELSE x + y

\* A Vec holds at most isize::MAX bytes; the model lets it hold that many
\* elements whatever their size.
VecMaxLen == usize_MAX \div 2

\* Vec::resize_with(new_len, || None) on a vector that is not longer than
\* new_len; a length no Vec can have panics with a capacity overflow.
resize_with(v, new_len) ==
    IF new_len > VecMaxLen THEN [panicked |-> TRUE, v |-> v]
    ELSE [panicked |-> FALSE, v |-> ensure_len(v, new_len, None)]

\* Graph::new, and Graph::with_capacity, whose hints reserve memory only.
adjlist_new == [first |-> <<>>, next_edge |-> <<>>, end_vertex |-> <<>>]

adjlist_with_capacity(vertices, edges) == adjlist_new

adjlist_len(g) == Len(g.first)

adjlist_edge_count(g) == Len(g.end_vertex)

adjlist_is_empty(g) == adjlist_edge_count(g) = 0

\* The link to the next edge is stored only if the vertex had an edge.
adjlist_push_sparse_links(g, from, to) ==
    LET len == Max(Max(Len(g.first), saturating_add(from, 1)), saturating_add(to, 1))
        r == resize_with(g.first, len)
        edge_index == Len(g.end_vertex)
    IN IF r.panicked \/ from >= Len(r.v)
       THEN [graph |-> g, result |-> "panic", returned |-> None]
       ELSE [graph |-> [first |-> [r.v EXCEPT ![from + 1] = edge_index],
                        next_edge |-> IF r.v[from + 1] = None THEN g.next_edge
                                      ELSE Append(g.next_edge, r.v[from + 1]),
                        end_vertex |-> Append(g.end_vertex, to)],
             result |-> "ok", returned |-> edge_index]

\* The new edge takes index 0 and every earlier edge moves up by one.
adjlist_push_renumbering(g, from, to) ==
    LET len == Max(Max(Len(g.first), saturating_add(from, 1)), saturating_add(to, 1))
        r == resize_with(g.first, len)
        up(e) == IF e = None THEN None ELSE e + 1
    IN IF r.panicked \/ from >= Len(r.v)
       THEN [graph |-> g, result |-> "panic", returned |-> None]
       ELSE [graph |-> [first |-> [i \in 1..Len(r.v) |->
                                     IF i = from + 1 THEN 0 ELSE up(r.v[i])],
                        next_edge |-> <<up(r.v[from + 1])>>
                                      \o [i \in 1..Len(g.next_edge) |-> up(g.next_edge[i])],
                        end_vertex |-> <<to>> \o g.end_vertex],
             result |-> "ok", returned |-> 0]

\* The vertex table is grown to cover from only.
adjlist_push_sized_by_from(g, from, to) ==
    LET len == Max(Len(g.first), saturating_add(from, 1))
        r == resize_with(g.first, len)
        edge_index == Len(g.end_vertex)
    IN IF r.panicked \/ from >= Len(r.v)
       THEN [graph |-> g, result |-> "panic", returned |-> None]
       ELSE [graph |-> [first |-> [r.v EXCEPT ![from + 1] = edge_index],
                        next_edge |-> Append(g.next_edge, r.v[from + 1]),
                        end_vertex |-> Append(g.end_vertex, to)],
             result |-> "ok", returned |-> edge_index]

\* The edge is not linked to the edges its vertex already has.
adjlist_push_unlinked(g, from, to) ==
    LET len == Max(Max(Len(g.first), saturating_add(from, 1)), saturating_add(to, 1))
        r == resize_with(g.first, len)
        edge_index == Len(g.end_vertex)
    IN IF r.panicked \/ from >= Len(r.v)
       THEN [graph |-> g, result |-> "panic", returned |-> None]
       ELSE [graph |-> [first |-> [r.v EXCEPT ![from + 1] = edge_index],
                        next_edge |-> Append(g.next_edge, None),
                        end_vertex |-> Append(g.end_vertex, to)],
             result |-> "ok", returned |-> edge_index]

\* Graph::push: the graph after the call, whether the call returned or
\* panicked (in resize_with or at the index first[from]), and its value.
adjlist_push(g, from, to) ==
    LET len == Max(Max(Len(g.first), saturating_add(from, 1)), saturating_add(to, 1))
        r == resize_with(g.first, len)
        edge_index == Len(g.end_vertex)
    IN IF r.panicked \/ from >= Len(r.v)
       THEN [graph |-> g, result |-> "panic", returned |-> None]
       ELSE [graph |-> [first |-> [r.v EXCEPT ![from + 1] = edge_index],
                        next_edge |-> Append(g.next_edge, r.v[from + 1]),
                        end_vertex |-> Append(g.end_vertex, to)],
             result |-> "ok", returned |-> edge_index]

\* Graph::neighbors: first.get(node).copied().flatten().
adjlist_neighbors(g, node) ==
    [next_edge |-> IF node < Len(g.first) THEN g.first[node + 1] ELSE None]

\* NeighborIterator::next: some tells Some from None.
NeighborIterator_next(g, it) ==
    IF it.next_edge = None THEN [some |-> FALSE, item |-> <<>>, it |-> it]
    ELSE [some |-> TRUE,
          item |-> <<g.end_vertex[it.next_edge + 1], it.next_edge>>,
          it |-> [next_edge |-> g.next_edge[it.next_edge + 1]]]

\* collect() of a NeighborIterator.
RECURSIVE NeighborIterator_collect(_, _)
NeighborIterator_collect(g, it) ==
    LET r == NeighborIterator_next(g, it)
    IN IF r.some THEN <<r.item>> \o NeighborIterator_collect(g, r.it) ELSE <<>>

\* Graph::edges.
adjlist_edges(g) == [parent |-> 0, neighbors |-> adjlist_neighbors(g, 0)]

\* When a vertex is used up the next vertex is asked once and its answer,
\* an edge or the end, is returned.
EdgesIterator_next_one_step(g, it) ==
    LET r == NeighborIterator_next(g, it.neighbors)
        parent == saturating_add(it.parent, 1)
        n == NeighborIterator_next(g, adjlist_neighbors(g, parent))
    IN IF r.some
       THEN [some |-> TRUE, item |-> <<it.parent, r.item[1]>>,
             it |-> [parent |-> it.parent, neighbors |-> r.it]]
       ELSE IF parent < adjlist_len(g) /\ n.some
            THEN [some |-> TRUE, item |-> <<parent, n.item[1]>>,
                  it |-> [parent |-> parent, neighbors |-> n.it]]
            ELSE [some |-> FALSE, item |-> <<>>,
                  it |-> [parent |-> parent, neighbors |-> r.it]]

\* EdgesIterator::next.
RECURSIVE EdgesIterator_next(_, _)
EdgesIterator_next(g, it) ==
    LET r == NeighborIterator_next(g, it.neighbors)
        parent == saturating_add(it.parent, 1)
    IN IF r.some
       THEN [some |-> TRUE, item |-> <<it.parent, r.item[1]>>,
             it |-> [parent |-> it.parent, neighbors |-> r.it]]
       ELSE IF parent < adjlist_len(g)
            THEN EdgesIterator_next(g, [parent |-> parent,
                                        neighbors |-> adjlist_neighbors(g, parent)])
            ELSE [some |-> FALSE, item |-> <<>>,
                  it |-> [parent |-> parent, neighbors |-> r.it]]

\* collect() of an EdgesIterator.
RECURSIVE EdgesIterator_collect(_, _)
EdgesIterator_collect(g, it) ==
    LET r == EdgesIterator_next(g, it)
    IN IF r.some THEN <<r.item>> \o EdgesIterator_collect(g, r.it) ELSE <<>>

\* Extend::extend: push every pair of the sequence; a panic ends the loop.
RECURSIVE adjlist_extend(_, _)
adjlist_extend(g, pairs) ==
    IF pairs = <<>> THEN [graph |-> g, result |-> "ok", returned |-> None]
    ELSE LET r == adjlist_push(g, Head(pairs)[1], Head(pairs)[2])
         IN IF r.result = "ok" THEN adjlist_extend(r.graph, Tail(pairs)) ELSE r

\* The edges are pushed as they are, not reversed.
adjlist_transpose_unswapped(g) ==
    adjlist_extend(adjlist_with_capacity(adjlist_len(g), adjlist_edge_count(g)),
                   EdgesIterator_collect(g, adjlist_edges(g)))

\* Graph::transpose: the closure maps the pair (to, from) to (from, to).
adjlist_transpose(g) ==
    LET edges == EdgesIterator_collect(g, adjlist_edges(g))
    IN adjlist_extend(adjlist_with_capacity(adjlist_len(g), adjlist_edge_count(g)),
                      [i \in 1..Len(edges) |-> <<edges[i][2], edges[i][1]>>])

-----------------------------------------------------------------------------
(* graph.rs: the adjacency-list graph with a fixed number of vertices       *)

\* Graph::new(max_vertices, edge_hint); the hint only reserves memory.
fixed_new(max_vertices, edge_hint) ==
    [first |-> [i \in 1..max_vertices |-> None], next_edge |-> <<>>,
     end_vertex |-> <<>>]

fixed_len(g) == Len(g.first)

fixed_edge_count(g) == Len(g.end_vertex)

\* Graph::add_edge; self.first[from] panics for from beyond the table.
fixed_add_edge(g, from, to) ==
    IF from >= Len(g.first)
    THEN [graph |-> g, result |-> "panic", returned |-> None]
    ELSE [graph |-> [first |-> [g.first EXCEPT ![from + 1] = Len(g.end_vertex)],
                     next_edge |-> Append(g.next_edge, g.first[from + 1]),
                     end_vertex |-> Append(g.end_vertex, to)],
          result |-> "ok", returned |-> Len(g.end_vertex)]

\* Graph::neighbors; self.first[node] panics for node beyond the table.
fixed_neighbors(g, node) ==
    IF node >= Len(g.first)
    THEN [result |-> "panic", it |-> [next_edge |-> None]]
    ELSE [result |-> "ok", it |-> [next_edge |-> g.first[node + 1]]]

\* NeighborIterator::next of graph.rs.
fixed_NeighborIterator_next(g, it) ==
    IF it.next_edge = None THEN [some |-> FALSE, item |-> <<>>, it |-> it]
    ELSE [some |-> TRUE,
          item |-> <<g.end_vertex[it.next_edge + 1], it.next_edge>>,
          it |-> [next_edge |-> g.next_edge[it.next_edge + 1]]]

\* collect() of that iterator.
RECURSIVE fixed_NeighborIterator_collect(_, _)
fixed_NeighborIterator_collect(g, it) ==
    LET r == fixed_NeighborIterator_next(g, it)
    IN IF r.some THEN <<r.item>> \o fixed_NeighborIterator_collect(g, r.it) ELSE <<>>

-----------------------------------------------------------------------------
(* The traversal iterators over one graph.                                 *)

\* The adjacency-list graph as Graph::new makes it: pushes lists the pushes
\* that returned, calls counts the calls of push, call is the last call.
AdjListStart ==
    [graph |-> adjlist_new, pushes |-> <<>>, calls |-> 0,
     call |-> [op |-> "new", args |-> <<>>, result |-> "ok", returned |-> None]]

Algorithms(g, s) ==
    /\ graph = g
    /\ start = s
    /\ levelorder = LevelOrder_new(g, s)
    /\ preorder = PreOrder_new(g, s)
    /\ postorder = PostOrder_new(g, s)
    /\ topological = Topological_new(g)
    /\ dom = immediate_dominators_begin(g, s)

NoGrowth ==
    [old_node_capacity |-> 0, new_node_capacity |-> 0, before |-> <<>>,
     after |-> [adj |-> <<>>, block |-> FALSE, elementwise |-> FALSE,
                assert_failed |-> FALSE],
     done |-> FALSE]

\* Iterators and dominance analysis over every input graph and start vertex.
InitTraversal ==
    /\ \E g \in Graphs : \E s \in 0..(node_count(g) - 1) : Algorithms(g, s)
    /\ matrix = Graph_new(TRUE)
    /\ grow = NoGrowth
    /\ adjlist = AdjListStart

algorithms == <<graph, start, levelorder, preorder, postorder, topological, dom>>

\* A matrix graph, directed or undirected, as new or with_capacity makes it.
InitMatrix ==
    /\ Algorithms(MatrixGraphOf(CycleEdges), 2)
    /\ \E directed \in BOOLEAN : \E capacity \in 0..MaxInitCapacity :
          matrix = with_capacity(directed, capacity)
    /\ grow = NoGrowth
    /\ adjlist = AdjListStart

\* Each call writes a fresh weight, the number of the call, so that a stored
\* weight names the call that wrote it.
UpdateEdge ==
    /\ matrix.calls < MaxCalls
    /\ matrix.call.result = "ok"
    /\ \E a, b \in 0..MaxVertex : matrix' = update_edge(matrix, a, b, matrix.calls + 1)
    /\ UNCHANGED <<algorithms, grow, adjlist>>

RemoveEdge ==
    /\ matrix.calls < MaxCalls
    /\ matrix.call.result = "ok"
    /\ \E a, b \in 0..MaxVertex : matrix' = remove_edge(matrix, a, b)
    /\ UNCHANGED <<algorithms, grow, adjlist>>

NextMatrix == UpdateEdge \/ RemoveEdge

SpecMatrix == InitMatrix /\ [][NextMatrix]_vars

\* The contents of a flat square matrix of capacity n: every slot is empty
\* or holds a weight that names the slot.
SquareContents(n) ==
    {[k \in 1..(n * n) |-> IF k \in S THEN k ELSE Empty] : S \in SUBSET (1..(n * n))}

\* A directed matrix of some capacity and a larger capacity to grow it to.
InitGrow ==
    /\ Algorithms(MatrixGraphOf(CycleEdges), 2)
    /\ matrix = Graph_new(TRUE)
    /\ \E n0 \in 0..MaxOldCapacity : \E n1 \in (n0 + 1)..MaxNewCapacity :
       \E contents \in SquareContents(n0) :
          grow = [NoGrowth EXCEPT !.old_node_capacity = n0, !.new_node_capacity = n1,
                                  !.before = contents]
    /\ adjlist = AdjListStart

ExtendMatrix ==
    /\ ~grow.done
    /\ grow' = [grow EXCEPT !.after = extend_flat_square_matrix(grow.before,
                                         grow.old_node_capacity, grow.new_node_capacity),
                            !.done = TRUE]
    /\ UNCHANGED <<algorithms, matrix, adjlist>>

SpecGrow == InitGrow /\ [][ExtendMatrix]_vars

\* The level-order iterator keeps its visited map in that of the pre-order
\* iterator.
LevelOrderNext_shared_discovered ==
    /\ LET r == LevelOrder_next([levelorder EXCEPT !.discovered = preorder.discovered],
                                graph)
       IN /\ levelorder' = r
          /\ preorder' = [preorder EXCEPT !.discovered = r.discovered]
    /\ UNCHANGED <<graph, start, postorder, topological, dom, matrix, grow, adjlist>>

LevelOrderNext ==
    /\ levelorder' = LevelOrder_next(levelorder, graph)
    /\ UNCHANGED <<graph, start, preorder, postorder, topological, dom, matrix, grow,
                 adjlist>>

PreOrderNext ==
    /\ preorder' = PreOrder_next(preorder, graph)
    /\ UNCHANGED <<graph, start, levelorder, postorder, topological, dom, matrix, grow,
                 adjlist>>

PostOrderNext ==
    /\ postorder' = PostOrder_next(postorder, graph)
    /\ UNCHANGED <<graph, start, levelorder, preorder, topological, dom, matrix, grow,
                 adjlist>>

TopologicalNext ==
    /\ topological' = Topological_next(topological, graph)
    /\ UNCHANGED <<graph, start, levelorder, preorder, postorder, dom, matrix, grow,
                 adjlist>>

\* One pass of the while loop of immediate_dominators.
DominatorsPass ==
    /\ dom.pc = "loop"
    /\ dom' = dominators_pass(graph, dom)
    /\ UNCHANGED <<graph, start, levelorder, preorder, postorder, topological, matrix, grow,
                 adjlist>>

\* frontiers, once immediate_dominators has returned.
FrontiersRun ==
    /\ dom.pc = "done"
    /\ LET f == frontiers(graph, dom.dominators)
       IN dom' = [dom EXCEPT !.pc = IF f.panicked THEN "frontiers_panic" ELSE "frontiers",
                             !.frontiers = f.frontiers,
                             !.panicked = f.panicked]
    /\ UNCHANGED <<graph, start, levelorder, preorder, postorder, topological, matrix, grow,
                 adjlist>>

NextDominance == DominatorsPass \/ FrontiersRun

SpecDominance == InitTraversal /\ [][NextDominance]_vars

SpecLevelOrder == InitTraversal /\ [][LevelOrderNext]_vars

SpecPreOrder == InitTraversal /\ [][PreOrderNext]_vars

SpecPostOrder == InitTraversal /\ [][PostOrderNext]_vars

SpecTopological == InitTraversal /\ [][TopologicalNext]_vars

\* The graph after the calls update_edge(a, b, w) for the pairs (a, b) of the
\* stream es, each with the number of its call as weight; a panic ends them.
RECURSIVE updated_with(_, _)
updated_with(g, es) ==
    IF es = <<>> \/ g.call.result # "ok" THEN g
    ELSE updated_with(update_edge(g, Head(es)[1], Head(es)[2], g.calls + 1), Tail(es))

ScanStreams ==
    UNION {[1..m -> (0..MaxScanVertex) \X (0..MaxScanVertex)] : m \in 0..MaxScanEdges}

\* A matrix graph, directed or undirected, built from new by update_edge
\* calls that all returned.
InitScan ==
    /\ Algorithms(MatrixGraphOf(CycleEdges), 2)
    /\ \E directed \in BOOLEAN : \E es \in ScanStreams :
          /\ matrix = updated_with(Graph_new(directed), es)
          /\ matrix.call.result = "ok"
    /\ grow = NoGrowth
    /\ adjlist = AdjListStart

\* The scan of the row of vertex v (its children); returned holds the items.
\* A scan leaves the graph as it is, so one scan of each built graph is taken.
ChildrenScan ==
    /\ matrix.call.op \in {"new", "update_edge"}
    /\ \E v \in 0..(MaxScanVertex + 2) :
          LET r == Edges_collect(Edges_on_columns(v, matrix.capacity),
                                 matrix.adjacencies, matrix.directed)
          IN matrix' = [matrix EXCEPT !.call =
                           [op |-> "children", a |-> v, b |-> v, weight |-> Empty,
                            result |-> IF r.panicked THEN "panic" ELSE "ok",
                            returned |-> r.items]]
    /\ UNCHANGED <<algorithms, grow, adjlist>>

\* The scan of the column of vertex v (its parents).
ParentsScan ==
    /\ matrix.call.op \in {"new", "update_edge"}
    /\ \E v \in 0..(MaxScanVertex + 2) :
          LET r == Edges_collect(Edges_on_rows(v, matrix.capacity),
                                 matrix.adjacencies, matrix.directed)
          IN matrix' = [matrix EXCEPT !.call =
                           [op |-> "parents", a |-> v, b |-> v, weight |-> Empty,
                            result |-> IF r.panicked THEN "panic" ELSE "ok",
                            returned |-> r.items]]
    /\ UNCHANGED <<algorithms, grow, adjlist>>

NextScan == ChildrenScan \/ ParentsScan

SpecScan == InitScan /\ [][NextScan]_vars

\* The graph of graph.rs as new(max_vertices, edge_hint) makes it.
InitFixed ==
    /\ Algorithms(MatrixGraphOf(CycleEdges), 2)
    /\ matrix = Graph_new(TRUE)
    /\ grow = NoGrowth
    /\ \E max_vertices \in 0..(MaxAdjVertex + 1) : \E edge_hint \in {0, MaxPushes} :
          adjlist = [graph |-> fixed_new(max_vertices, edge_hint), pushes |-> <<>>,
                     calls |-> 0,
                     call |-> [op |-> "new", args |-> <<max_vertices, edge_hint>>,
                               result |-> "ok", returned |-> None]]

AddEdge ==
    /\ adjlist.call.result = "ok"
    /\ adjlist.calls < MaxPushes
    /\ \E from, to \in 0..(MaxAdjVertex + 1) :
          LET r == fixed_add_edge(adjlist.graph, from, to)
          IN adjlist' = [graph |-> r.graph,
                         pushes |-> IF r.result = "ok"
                                    THEN Append(adjlist.pushes, <<from, to>>)
                                    ELSE adjlist.pushes,
                         calls |-> adjlist.calls + 1,
                         call |-> [op |-> "add_edge", args |-> <<from, to>>,
                                   result |-> r.result, returned |-> r.returned]]
    /\ UNCHANGED <<algorithms, matrix, grow>>

\* neighbors(node).collect() on the graph of graph.rs.
FixedNeighbors ==
    /\ adjlist.call.result = "ok"
    /\ \E node \in 0..(MaxAdjVertex + 2) :
          LET r == fixed_neighbors(adjlist.graph, node)
          IN adjlist' = [adjlist EXCEPT !.call =
                            [op |-> "neighbors", args |-> <<node>>, result |-> r.result,
                             returned |-> IF r.result = "ok"
                                          THEN fixed_NeighborIterator_collect(
                                                   adjlist.graph, r.it)
                                          ELSE <<>>]]
    /\ UNCHANGED <<algorithms, matrix, grow>>

NextFixed == AddEdge \/ FixedNeighbors

SpecFixed == InitFixed /\ [][NextFixed]_vars

\* The vertex indices passed to the adjacency-list graph.
AdjIndices == (0..MaxAdjVertex) \cup {usize_MAX}

InitAdjList ==
    /\ Algorithms(MatrixGraphOf(CycleEdges), 2)
    /\ matrix = Graph_new(TRUE)
    /\ grow = NoGrowth
    /\ adjlist = AdjListStart

Push ==
    /\ adjlist.call.result = "ok"
    /\ adjlist.calls < MaxPushes
    /\ \E from, to \in AdjIndices :
          LET r == adjlist_push(adjlist.graph, from, to)
          IN adjlist' = [graph |-> r.graph,
                         pushes |-> IF r.result = "ok"
                                    THEN Append(adjlist.pushes, <<from, to>>)
                                    ELSE adjlist.pushes,
                         calls |-> adjlist.calls + 1,
                         call |-> [op |-> "push", args |-> <<from, to>>,
                                   result |-> r.result, returned |-> r.returned]]
    /\ UNCHANGED <<algorithms, matrix, grow>>

\* neighbors(node).collect()
Neighbors ==
    /\ adjlist.call.result = "ok"
    /\ \E node \in AdjIndices \cup {MaxAdjVertex + 1} :
          adjlist' = [adjlist EXCEPT !.call =
                         [op |-> "neighbors", args |-> <<node>>, result |-> "ok",
                          returned |-> NeighborIterator_collect(adjlist.graph,
                                          adjlist_neighbors(adjlist.graph, node))]]
    /\ UNCHANGED <<algorithms, matrix, grow>>

\* edges().collect()
Edges ==
    /\ adjlist.call.result = "ok"
    /\ adjlist' = [adjlist EXCEPT !.call =
                      [op |-> "edges", args |-> <<>>, result |-> "ok",
                       returned |-> EdgesIterator_collect(adjlist.graph,
                                                          adjlist_edges(adjlist.graph))]]
    /\ UNCHANGED <<algorithms, matrix, grow>>

\* transpose() of the graph, and transpose() of the graph that returned.
Transpose ==
    /\ adjlist.call.result = "ok"
    /\ LET r == adjlist_transpose(adjlist.graph)
       IN adjlist' = [adjlist EXCEPT !.call =
                         [op |-> "transpose", args |-> <<>>, result |-> r.result,
                          returned |-> r.graph]]
    /\ UNCHANGED <<algorithms, matrix, grow>>

TransposeAgain ==
    /\ adjlist.call.result = "ok"
    /\ adjlist.call.op = "transpose"
    /\ LET r == adjlist_transpose(adjlist.call.returned)
       IN adjlist' = [adjlist EXCEPT !.call =
                         [op |-> "transpose_transpose", args |-> <<>>,
                          result |-> r.result, returned |-> r.graph]]
    /\ UNCHANGED <<algorithms, matrix, grow>>

NextAdjList == Push \/ Neighbors \/ Edges \/ Transpose \/ TransposeAgain

SpecAdjList == InitAdjList /\ [][NextAdjList]_vars

\* The three start-vertex iterators side by side over the graphs of the
\* repository's tests.
InitTests ==
    /\ \E g \in TestGraphs : \E s \in 0..(node_count(g) - 1) : Algorithms(g, s)
    /\ matrix = Graph_new(TRUE)
    /\ grow = NoGrowth
    /\ adjlist = AdjListStart

NextTraversals == LevelOrderNext \/ PreOrderNext \/ PostOrderNext

SpecTraversals == InitTests /\ [][NextTraversals]_vars

\* The four iterators over one graph, advanced in any interleaving.
NextInterleaved == LevelOrderNext \/ PreOrderNext \/ PostOrderNext \/ TopologicalNext

\* Iterators over the graphs of the tests and the fan graph.
InitInterleaved ==
    /\ \E g \in TestGraphs \cup {MatrixGraphOf(FanEdges)} :
          \E s \in 0..(node_count(g) - 1) : Algorithms(g, s)
    /\ matrix = Graph_new(TRUE)
    /\ grow = NoGrowth
    /\ adjlist = AdjListStart

SpecInterleaved == InitInterleaved /\ [][NextInterleaved]_vars

-----------------------------------------------------------------------------
(* Reference notions the claims are stated with.                           *)

Successors(g, S) == UNION {Range(children(g, v)) : v \in S}

\* The vertices reachable from the set S without entering the vertex avoid.
RECURSIVE ReachAvoiding(_, _, _)
ReachAvoiding(g, S, avoid) ==
    LET T == S \cup (Successors(g, S) \ {avoid})
    IN IF T = S THEN S ELSE ReachAvoiding(g, T, avoid)

Reachable(g, s) == ReachAvoiding(g, {s}, None)

NoDuplicates(s) == \A i, j \in 1..Len(s) : s[i] = s[j] => i = j

\* The position of v in the duplicate-free sequence s.
PositionIn(s, v) == CHOOSE i \in 1..Len(s) : s[i] = v

Acyclic(g) ==
    \A v \in 0..(node_count(g) - 1) : v \notin ReachAvoiding(g, Range(children(g, v)), None)

-----------------------------------------------------------------------------
(* Claims about the traversal iterators.                                   *)

\* C1: LevelOrder yields every vertex reachable from start exactly once and
\* no other vertex; the start vertex is never yielded a second time.
C1_LevelOrderExactlyOnce ==
    /\ NoDuplicates(levelorder.out)
    /\ Range(levelorder.out) \subseteq Reachable(graph, start)
    /\ levelorder.exhausted => Range(levelorder.out) = Reachable(graph, start)

\* C8: PreOrder yields start first and every vertex reachable from start
\* exactly once and no unreachable vertex, also with cycles through start,
\* parallel edges and self-loops.
C8_PreOrderExactlyOnce ==
    /\ NoDuplicates(preorder.out)
    /\ Range(preorder.out) \subseteq Reachable(graph, start)
    /\ preorder.out # <<>> => preorder.out[1] = start
    /\ preorder.exhausted => Range(preorder.out) = Reachable(graph, start)

\* An exhausted pre-order over a graph with a self-loop at start, parallel
\* edges and a further reachable vertex.
C8_Witness ==
    /\ preorder.exhausted
    /\ start \in Range(children(graph, start))
    /\ \E v \in DOMAIN graph.children : ~NoDuplicates(children(graph, v))
    /\ Len(preorder.out) >= 2

\* C9: PostOrder yields every vertex reachable from start exactly once, no
\* unreachable vertex, and start last.
C9_PostOrderExactlyOnce ==
    /\ NoDuplicates(postorder.out)
    /\ Range(postorder.out) \subseteq Reachable(graph, start)
    /\ postorder.exhausted =>
          /\ Range(postorder.out) = Reachable(graph, start)
          /\ Last(postorder.out) = start

\* A vertex sits on the stack twice after a vertex has been yielded.
C9_Witness ==
    /\ ~NoDuplicates(postorder.stack)
    /\ postorder.out # <<>>

\* C10: on an acyclic graph Topological yields every vertex index below the
\* node count exactly once, every edge's source before its target; the test
\* graph is yielded as [0,3,4,5,1,2].
C10_TopologicalOrder ==
    /\ Acyclic(graph) => NoDuplicates(topological.out)
    /\ (Acyclic(graph) /\ topological.exhausted) =>
          /\ Range(topological.out) = 0..(node_count(graph) - 1)
          /\ \A u \in 0..(node_count(graph) - 1) :
                \A v \in Range(children(graph, u)) :
                   PositionIn(topological.out, u) < PositionIn(topological.out, v)
    /\ (graph = MatrixGraphOf(TopoEdges) /\ topological.exhausted) =>
          topological.out = <<0, 3, 4, 5, 1, 2>>

\* The test graph's traversal has ended.
C10_Witness ==
    /\ graph = MatrixGraphOf(TopoEdges)
    /\ topological.exhausted
    /\ Len(topological.out) = 6

\* The vertices that lie on a cycle of g.
OnCycle(g) ==
    {v \in 0..(node_count(g) - 1) : v \in ReachAvoiding(g, Range(children(g, v)), None)}

\* The vertices that are neither on a cycle nor reachable from one.
CycleFree(g) ==
    (0..(node_count(g) - 1)) \ UNION {Reachable(g, c) : c \in OnCycle(g)}

\* C11: on a graph that contains a cycle Topological never fails, comes to an
\* end, and yields exactly the vertices that are neither on a cycle nor
\* reachable from one, each once and every one after its parents among them.
C11_TopologicalOnCycles ==
    ~Acyclic(graph) =>
       /\ ~topological.underflow
       /\ NoDuplicates(topological.out)
       /\ Range(topological.out) \subseteq CycleFree(graph)
       /\ Range(topological.out) = CycleFree(graph) => topological.stack = <<>>
       /\ topological.exhausted => Range(topological.out) = CycleFree(graph)
       /\ \A v \in Range(topological.out) : \A u \in CycleFree(graph) :
             v \in Range(children(graph, u)) =>
                /\ u \in Range(topological.out)
                /\ PositionIn(topological.out, u) < PositionIn(topological.out, v)

\* Topological has ended on a graph with a cycle, after yielding a vertex and
\* omitting one that is off the cycle but reachable from it.
C11_Witness ==
    /\ ~Acyclic(graph)
    /\ topological.exhausted
    /\ topological.out # <<>>
    /\ \E v \in 0..(node_count(graph) - 1) :
          v \notin OnCycle(graph) /\ v \notin CycleFree(graph)

\* s is an initial part of t.
IsPrefix(s, t) == Len(s) <= Len(t) /\ SubSeq(t, 1, Len(s)) = s

\* What an iterator has yielded so far is an initial part of order, and all
\* of it once the iterator has ended.
Yields(it, order) == IsPrefix(it.out, order) /\ (it.exhausted => it.out = order)

TreeGraph == MatrixGraphOf(TreeEdges)

\* C12: on the tree of the tests in a directed matrix graph, from start 1,
\* pre-order is [1,3,6,5,8,7,2,4], post-order is [6,8,7,5,3,4,2,1] and
\* level-order is [1,2,3,4,5,6,7,8].
C12_TreeOrders ==
    (graph = TreeGraph /\ start = 1) =>
       /\ Yields(preorder, <<1, 3, 6, 5, 8, 7, 2, 4>>)
       /\ Yields(postorder, <<6, 8, 7, 5, 3, 4, 2, 1>>)
       /\ Yields(levelorder, <<1, 2, 3, 4, 5, 6, 7, 8>>)

\* The three traversals of the tree from start 1 have ended.
C12_Witness ==
    /\ graph = TreeGraph /\ start = 1
    /\ preorder.exhausted /\ postorder.exhausted /\ levelorder.exhausted

\* The visit order of a recursive depth-first search that reports a vertex
\* on its first visit and recurses into its children from the one yielded
\* last to the one yielded first; order holds the vertices visited so far.
RECURSIVE DepthFirst(_, _, _), DepthFirstChildren(_, _, _)
DepthFirst(g, v, order) ==
    IF v \in Range(order) THEN order
    ELSE DepthFirstChildren(g, Reverse(children(g, v)), Append(order, v))

DepthFirstChildren(g, cs, order) ==
    IF cs = <<>> THEN order
    ELSE DepthFirstChildren(g, Tail(cs), DepthFirst(g, Head(cs), order))

\* C13: what PreOrder yields is the visit order of the recursive depth-first
\* search from start that takes the children of a vertex in the reverse of
\* the order in which they are yielded.
C13_PreOrderIsDepthFirst == Yields(preorder, DepthFirst(graph, start, <<>>))

\* C24: iterators over the same unmodified graph, advanced in any
\* interleaving, each yield exactly the sequence they yield alone, and no next
\* changes the graph.
C24_InterleavingIndependent ==
    [][/\ graph' = graph
       /\ Yields(levelorder', LevelOrder_collect(LevelOrder_new(graph, start), graph))
       /\ Yields(preorder', PreOrder_collect(PreOrder_new(graph, start), graph))
       /\ Yields(postorder', PostOrder_collect(PostOrder_new(graph, start), graph))
       /\ Yields(topological', Topological_collect(Topological_new(graph), graph))]_vars

\* One iterator has ended while the three others are each part of the way.
C24_Witness ==
    /\ preorder.exhausted /\ Len(preorder.out) > 2
    /\ ~levelorder.exhausted /\ Len(levelorder.out) > 1 /\ levelorder.queue # <<>>
    /\ ~postorder.exhausted /\ Len(postorder.out) > 1 /\ postorder.stack # <<>>
    /\ ~topological.exhausted /\ Len(topological.out) > 1 /\ topological.stack # <<>>

\* A call of next either returns a value, one more than before, or None.
ReturnsValueOrNone(it, after) ==
    \/ ~after.exhausted /\ Len(after.out) = Len(it.out) + 1
    \/ after.exhausted /\ after.out = it.out

\* C25: each of the four iterators returns None after finitely many next
\* calls (it returns at most one value for each vertex, LevelOrder one more),
\* and once it has returned None every later next returns None and leaves the
\* state of the iterator unchanged.
C25_IteratorsEndAndStayEnded ==
    [][/\ ReturnsValueOrNone(levelorder, levelorder') \/ levelorder' = levelorder
       /\ ReturnsValueOrNone(preorder, preorder') \/ preorder' = preorder
       /\ ReturnsValueOrNone(postorder, postorder') \/ postorder' = postorder
       /\ ReturnsValueOrNone(topological, topological') \/ topological' = topological
       /\ Len(levelorder'.out) <= node_count(graph) + 1
       /\ Len(preorder'.out) <= node_count(graph)
       /\ Len(postorder'.out) <= node_count(graph)
       /\ Len(topological'.out) <= node_count(graph)
       /\ levelorder.exhausted => levelorder' = levelorder
       /\ preorder.exhausted => preorder' = preorder
       /\ postorder.exhausted => postorder' = postorder
       /\ topological.exhausted => topological' = topological]_vars

\* Every iterator has returned values and then None, on a graph with a cycle.
C25_Witness ==
    /\ levelorder.exhausted /\ Len(levelorder.out) > 2
    /\ preorder.exhausted /\ Len(preorder.out) > 2
    /\ postorder.exhausted /\ Len(postorder.out) > 2
    /\ topological.exhausted /\ Len(topological.out) > 0
    /\ ~Acyclic(graph)

\* C26: in every reachable state the stack or queue of every traversal
\* iterator holds at most as many entries as the graph has vertices.
C26_AuxiliaryWithinNodeCount ==
    /\ Len(preorder.stack) <= node_count(graph)
    /\ Len(postorder.stack) <= node_count(graph)
    /\ Len(levelorder.queue) <= node_count(graph)
    /\ Len(topological.stack) <= node_count(graph)

\* The vertices at most k edges away from the set S.
RECURSIVE WithinSteps(_, _, _)
WithinSteps(g, S, k) ==
    IF k = 0 THEN S ELSE WithinSteps(g, S \cup Successors(g, S), k - 1)

\* The number of edges of a shortest path from s to the reachable vertex v.
Dist(g, s, v) ==
    CHOOSE k \in 0..node_count(g) :
       /\ v \in WithinSteps(g, {s}, k)
       /\ \A j \in 0..(k - 1) : v \notin WithinSteps(g, {s}, j)

\* C33: LevelOrder yields vertices in non-decreasing order of their distance
\* from start: for positions i < j, dist(start, out[i]) <= dist(start, out[j]).
C33_LevelOrderByDistance ==
    \A i, j \in 1..Len(levelorder.out) :
       i < j => Dist(graph, start, levelorder.out[i]) <= Dist(graph, start, levelorder.out[j])

\* The recursive depth-first search from v that takes the children of a
\* vertex in the reverse of the order in which they are yielded: seen are the
\* vertices entered, path those entered and not yet left, finish the order
\* in which vertices are left, back the edges to a vertex of the path.
RECURSIVE DepthFirstSearch(_, _, _), DepthFirstSearchChildren(_, _, _, _)
DepthFirstSearch(g, v, st) ==
    LET r == DepthFirstSearchChildren(g, v, Reverse(children(g, v)),
                 [st EXCEPT !.seen = @ \cup {v}, !.path = @ \cup {v}])
    IN [r EXCEPT !.path = @ \ {v}, !.finish = Append(@, v)]

DepthFirstSearchChildren(g, v, cs, st) ==
    IF cs = <<>> THEN st
    ELSE DepthFirstSearchChildren(g, v, Tail(cs),
            IF Head(cs) \in st.path THEN [st EXCEPT !.back = @ \cup {<<v, Head(cs)>>}]
            ELSE IF Head(cs) \in st.seen THEN st
            ELSE DepthFirstSearch(g, Head(cs), st))

DepthFirstFrom(g, s) ==
    DepthFirstSearch(g, s, [seen |-> {}, path |-> {}, finish |-> <<>>, back |-> {}])

\* C34: PostOrder yields a depth-first finishing order: for every edge u -> v
\* between reachable vertices, v is yielded before u unless v is unfinished
\* on the search path to u (a back edge); on an acyclic graph every child is
\* yielded before each of its parents.
C34_PostOrderFinishingOrder ==
    LET dfs == DepthFirstFrom(graph, start)
    IN /\ Yields(postorder, dfs.finish)
       /\ postorder.exhausted =>
             /\ \A u \in Reachable(graph, start) : \A v \in Range(children(graph, u)) :
                   \/ PositionIn(postorder.out, v) < PositionIn(postorder.out, u)
                   \/ <<u, v>> \in dfs.back
             /\ Acyclic(graph) =>
                   \A u \in Reachable(graph, start) : \A v \in Range(children(graph, u)) :
                      PositionIn(postorder.out, v) < PositionIn(postorder.out, u)

\* PostOrder has ended on a graph with a back edge between two vertices and an
\* edge to a vertex that was finished before.
C34_Witness ==
    /\ postorder.exhausted
    /\ \E e \in DepthFirstFrom(graph, start).back : e[1] # e[2]
    /\ \E u \in Reachable(graph, start) : \E v \in Range(children(graph, u)) :
          /\ <<u, v>> \notin DepthFirstFrom(graph, start).back
          /\ PositionIn(postorder.out, v) + 1 < PositionIn(postorder.out, u)

-----------------------------------------------------------------------------
(* Claims about the dominance analysis.                                    *)

Vertices(g) == 0..(node_count(g) - 1)

\* The vertices that a path from s reaches without passing through d.
ReachWithout(g, s, d) == IF s = d THEN {} ELSE ReachAvoiding(g, {s}, d)

\* d dominates v: v is reachable from s and every path from s to v passes d.
Dominates(g, s, d, v) == v \in Reachable(g, s) /\ v \notin ReachWithout(g, s, d)

StrictlyDominates(g, s, d, v) == d # v /\ Dominates(g, s, d, v)

\* d is the strict dominator of v that dominates no other strict dominator.
IsImmediateDominator(g, s, d, v) ==
    /\ d \in Vertices(g)
    /\ StrictlyDominates(g, s, d, v)
    /\ \A e \in Vertices(g) :
          (e # d /\ StrictlyDominates(g, s, e, v)) => ~Dominates(g, s, d, e)

\* The dominance frontier of b: the vertices y such that b dominates a
\* predecessor of y and does not strictly dominate y.
DominanceFrontier(g, s, b) ==
    {y \in Vertices(g) :
        /\ \E p \in Range(parents(g, y)) : Dominates(g, s, b, p)
        /\ ~StrictlyDominates(g, s, b, y)}

DominatorsReturned == dom.pc \in {"done", "frontiers", "frontiers_panic"}

\* C5: immediate_dominators maps start to Some(start), every vertex not
\* reachable from start to None, and every other reachable vertex to its
\* true immediate dominator.
C5_ImmediateDominators ==
    /\ dom.pc # "panic"
    /\ DominatorsReturned =>
          \A v \in Vertices(graph) :
             IF v = start THEN dom.dominators[v + 1] = start
             ELSE IF v \notin Reachable(graph, start) THEN dom.dominators[v + 1] = None
             ELSE IsImmediateDominator(graph, start, dom.dominators[v + 1], v)

\* The dominators of a graph in which a second pass over the reverse
\* post-order was needed and some vertex is dominated by a vertex other
\* than start.
C5_Witness ==
    /\ DominatorsReturned
    /\ dom.passes >= 2
    /\ \E v \in Vertices(graph) : dom.dominators[v + 1] \notin {None, start}
    /\ \E v \in Vertices(graph) : v \notin Reachable(graph, start)

\* Every vertex that has a predecessor is reachable from start.
PredecessorsReachable(g, s) ==
    \A v \in Vertices(g) : parents(g, v) # <<>> => v \in Reachable(g, s)

\* C6: when all vertices that have predecessors are reachable from start,
\* frontiers returns for each vertex b exactly its dominance frontier.
C6_FrontiersExact ==
    PredecessorsReachable(graph, start) =>
       /\ dom.pc # "frontiers_panic"
       /\ dom.pc = "frontiers" =>
             \A b \in Vertices(graph) :
                Range(dom.frontiers[b + 1]) = DominanceFrontier(graph, start, b)

FrontierGraph == MatrixGraphOf(FrontierEdges)

\* C7 as stated: on the test graph from start 0 the frontiers are {4} for
\* vertex 2, {4} for vertex 3, {5} for vertex 4 and empty for 0, 1 and 5.
C7_FrontiersAsStated ==
    (graph = FrontierGraph /\ start = 0 /\ dom.pc = "frontiers") =>
       /\ Range(dom.frontiers[3]) = {4}
       /\ Range(dom.frontiers[4]) = {4}
       /\ Range(dom.frontiers[5]) = {5}
       /\ dom.frontiers[1] = <<>>
       /\ dom.frontiers[2] = <<>>
       /\ dom.frontiers[6] = <<>>

\* C7, with the frontier of vertex 1 as the code computes it: the frontiers
\* are {5} for vertex 1, {4} for vertex 2, {4} for vertex 3, {5} for vertex 4
\* and empty for 0 and 5.
C7_FrontiersOfTest ==
    /\ (graph = FrontierGraph /\ start = 0) => dom.pc \notin {"panic", "frontiers_panic"}
    /\ (graph = FrontierGraph /\ start = 0 /\ dom.pc = "frontiers") =>
          /\ Range(dom.frontiers[2]) = {5}
          /\ Range(dom.frontiers[3]) = {4}
          /\ Range(dom.frontiers[4]) = {4}
          /\ Range(dom.frontiers[5]) = {5}
          /\ dom.frontiers[1] = <<>>
          /\ dom.frontiers[6] = <<>>

\* frontiers has returned on the test graph.
C7_Witness == graph = FrontierGraph /\ start = 0 /\ dom.pc = "frontiers"

\* C30: the fixpoint loop of immediate_dominators terminates: after finitely
\* many passes (at most node count + 2) a pass changes no dominator, and
\* nearest_common_dominator returns on every call without reaching a vertex
\* that has no dominator.
C30_DominatorsFixpointTerminates ==
    /\ dom.pc # "panic"
    /\ dom.passes <= node_count(graph) + 2
    /\ dom.pc = "done" =>
          /\ ~dom.changed
          /\ dominators_pass(graph, dom).dominators = dom.dominators
          /\ ~dominators_pass(graph, dom).changed

\* The loop has ended after three passes, and a vertex has two predecessors
\* with different dominators, so that the fingers had to walk.
C30_Witness ==
    /\ dom.pc = "done"
    /\ dom.passes = 3
    /\ \E node \in 0..(node_count(graph) - 1) :
          \E p, q \in Range(parents(graph, node)) :
             /\ p # q
             /\ dom.dominators[p + 1] # None
             /\ dom.dominators[q + 1] # None
             /\ dom.dominators[node + 1] \notin {p, q, None}

\* C31: in every pass of immediate_dominators, the first included, each
\* vertex processed has a predecessor whose dominator is already known, so
\* new_idom is never None and the debug assertion holds.
C31_NewIdomIsSome ==
    /\ ~dom.assert_failed
    /\ dom.passes >= 1 =>
          \A node \in Range(dom.order) : dom.dominators[node + 1] # None

\* A first pass has run over a vertex one of whose predecessors comes later
\* in the order, so that its dominator was not known yet.
C31_Witness ==
    /\ dom.passes = 1
    /\ \E node \in Range(dom.order) : \E p \in Range(parents(graph, node)) :
          /\ p \in Range(dom.order)
          /\ PositionIn(dom.order, p) > PositionIn(dom.order, node)

\* C32: every frontier returned by frontiers is a set: no vertex appears more
\* than once in the frontier list of any vertex b.
C32_FrontiersAreSets ==
    dom.pc = "frontiers" =>
       \A b \in Vertices(graph) : NoDuplicates(dom.frontiers[b + 1])

-----------------------------------------------------------------------------
(* Claims about the adjacency-list graph.                                  *)

\* How often x occurs in the sequence s.
Count(s, x) == Cardinality({i \in 1..Len(s) : s[i] = x})

\* The pairs that occur as an edge anywhere in the sequences s and t.
PairsOf(s, t) == Range(s) \cup Range(t)

\* C14: the k-th call of push (k = 0, 1, ...) returns k whatever its
\* arguments, edge_count() is the number of push calls and is_empty() holds
\* iff no push was made.
C14_PushReturnsIndex ==
    /\ adjlist.call.op = "push" =>
          adjlist.call.result = "ok" /\ adjlist.call.returned = adjlist.calls - 1
    /\ adjlist_edge_count(adjlist.graph) = adjlist.calls
    /\ adjlist_is_empty(adjlist.graph) <=> adjlist.calls = 0

\* The pairs (to, edge index) of the first k pushes that leave v, latest
\* push first.
RECURSIVE PushedFrom(_, _, _)
PushedFrom(pushes, v, k) ==
    IF k = 0 THEN <<>>
    ELSE (IF pushes[k][1] = v THEN << <<pushes[k][2], k - 1>> >> ELSE <<>>)
         \o PushedFrom(pushes, v, k - 1)

\* C15: neighbors(v) yields the pairs (to, edge index) of the pushes whose
\* from is v, parallel edges repeated, most recently pushed first.
C15_NeighborsReverseInsertion ==
    adjlist.call.op = "neighbors" =>
       adjlist.call.returned =
          PushedFrom(adjlist.pushes, adjlist.call.args[1], Len(adjlist.pushes))

\* neighbors has yielded two parallel edges of a vertex, after a push from
\* another vertex.
C15_Witness ==
    /\ adjlist.call.op = "neighbors"
    /\ Len(adjlist.call.returned) >= 2
    /\ adjlist.call.returned[1][1] = adjlist.call.returned[2][1]
    /\ \E i \in 1..Len(adjlist.pushes) : adjlist.pushes[i][1] # adjlist.call.args[1]

\* The edges of an adjacency-list graph, as edges() lists them.
EdgesOf(g) == EdgesIterator_collect(g, adjlist_edges(g))

\* C16: transpose(G) has the len() and edge_count() of G and, as a multiset,
\* the reversed edges of G; transpose(transpose(G)) has the edges of G.
C16_TransposeReversesEdges ==
    /\ adjlist.call.op = "transpose" =>
          /\ adjlist.call.result = "ok"
          /\ adjlist_len(adjlist.call.returned) = adjlist_len(adjlist.graph)
          /\ adjlist_edge_count(adjlist.call.returned) = adjlist_edge_count(adjlist.graph)
          /\ \A e \in PairsOf(adjlist.pushes, <<>>) :
                Count(EdgesOf(adjlist.call.returned), <<e[2], e[1]>>)
                   = Count(adjlist.pushes, e)
          /\ \A e \in PairsOf(EdgesOf(adjlist.call.returned), <<>>) :
                Count(EdgesOf(adjlist.call.returned), e)
                   = Count(adjlist.pushes, <<e[2], e[1]>>)
    /\ adjlist.call.op = "transpose_transpose" =>
          /\ adjlist.call.result = "ok"
          /\ \A e \in PairsOf(adjlist.pushes, EdgesOf(adjlist.call.returned)) :
                Count(EdgesOf(adjlist.call.returned), e) = Count(adjlist.pushes, e)

\* A graph with two parallel edges between two different vertices has been
\* transposed twice.
C16_Witness ==
    /\ adjlist.call.op = "transpose_transpose"
    /\ \E i, j \in 1..Len(adjlist.pushes) :
          /\ i # j
          /\ adjlist.pushes[i] = adjlist.pushes[j]
          /\ adjlist.pushes[i][1] # adjlist.pushes[i][2]

\* C17: edges() yields every pushed edge once per push, by increasing from
\* vertex below len(), edge_count() items in all.
C17_EdgesEnumeratesPushes ==
    adjlist.call.op = "edges" =>
       LET edges == adjlist.call.returned
       IN /\ Len(edges) = adjlist_edge_count(adjlist.graph)
          /\ \A e \in PairsOf(adjlist.pushes, edges) :
                Count(edges, e) = Count(adjlist.pushes, e)
          /\ \A i \in 1..Len(edges) : edges[i][1] < adjlist_len(adjlist.graph)
          /\ \A i, j \in 1..Len(edges) : i <= j => edges[i][1] <= edges[j][1]

\* edges() has listed the edges of a graph whose vertex 0 has no edge and
\* whose edges leave two vertices.
C17_Witness ==
    /\ adjlist.call.op = "edges"
    /\ Len(adjlist.call.returned) >= 2
    /\ adjlist.graph.first[1] = None
    /\ \E i \in 1..(Len(adjlist.call.returned) - 1) :
          adjlist.call.returned[i + 1][1] > adjlist.call.returned[i][1]

\* C18: neighbors of a vertex at or beyond len() is empty and does not fail,
\* and push fails for no indices.
C18_PushNeverFails ==
    /\ adjlist.call.op = "push" => adjlist.call.result = "ok"
    /\ (adjlist.call.op = "neighbors"
          /\ adjlist.call.args[1] >= adjlist_len(adjlist.graph)) =>
          adjlist.call.result = "ok" /\ adjlist.call.returned = <<>>

\* neighbors(v).collect() on the graph g.
NeighborsOf(g, v) == NeighborIterator_collect(g, adjlist_neighbors(g, v))

\* The vertices whose neighbors hold the edge index i, and the target of i.
EdgeSources(g, i) ==
    {v \in 0..(adjlist_len(g) - 1) :
        \E k \in 1..Len(NeighborsOf(g, v)) : NeighborsOf(g, v)[k][2] = i}

EdgeTarget(g, i) == g.end_vertex[i + 1]

\* C27: push(from, to) leaves every edge index returned before valid, with the
\* same source and target; the neighbors of every vertex other than from are
\* unchanged and those of from are the old ones with the new edge in front.
C27_PushKeepsEarlierEdges ==
    [][(/\ adjlist'.call.op = "push"
        /\ adjlist'.calls = adjlist.calls + 1
        /\ adjlist'.call.result = "ok") =>
          LET g == adjlist.graph
              after == adjlist'.graph
              from == adjlist'.call.args[1]
              to == adjlist'.call.args[2]
          IN /\ \A i \in 0..(adjlist_edge_count(g) - 1) :
                   /\ i < adjlist_edge_count(after)
                   /\ i # adjlist'.call.returned
                   /\ EdgeTarget(after, i) = EdgeTarget(g, i)
                   /\ EdgeSources(after, i) = EdgeSources(g, i)
                   /\ Cardinality(EdgeSources(g, i)) = 1
             /\ \A v \in 0..usize_MAX :
                   v # from => NeighborsOf(after, v) = NeighborsOf(g, v)
             /\ NeighborsOf(after, from)
                   = << <<to, adjlist'.call.returned>> >> \o NeighborsOf(g, from)]_vars

\* A push from a vertex that had an edge, while another vertex has one too.
C27_Witness ==
    /\ adjlist.call.op = "push"
    /\ adjlist.call.result = "ok"
    /\ Len(NeighborsOf(adjlist.graph, adjlist.call.args[1])) >= 2
    /\ \E v \in 0..MaxAdjVertex :
          v # adjlist.call.args[1] /\ NeighborsOf(adjlist.graph, v) # <<>>

\* One plus the largest index passed to a push as from or to, 0 without a push.
VerticesPushed(pushes) ==
    IF pushes = <<>> THEN 0
    ELSE LET passed == {pushes[k][1] : k \in 1..Len(pushes)}
                          \cup {pushes[k][2] : k \in 1..Len(pushes)}
         IN 1 + (CHOOSE m \in passed : \A x \in passed : x <= m)

\* C28: len() never decreases and is always one plus the largest vertex index
\* that was passed as from or to to a push, 0 if there was no push.
C28_LenIsLargestVertexPlusOne ==
    [][/\ adjlist_len(adjlist'.graph) >= adjlist_len(adjlist.graph)
       /\ adjlist_len(adjlist.graph) = VerticesPushed(adjlist.pushes)
       /\ adjlist_len(adjlist'.graph) = VerticesPushed(adjlist'.pushes)]_vars

\* A push of two small indices after a push of a larger one: len() stays.
C28_Witness ==
    /\ adjlist.call.op = "push"
    /\ adjlist.call.result = "ok"
    /\ Len(adjlist.pushes) >= 2
    /\ Max(adjlist.call.args[1], adjlist.call.args[2]) + 1 < adjlist_len(adjlist.graph)

\* C29: for the graph of graph.rs made by new(max_vertices, edge_hint),
\* neighbors(node) is empty, and does not fail, for every node >= len().
C29_FixedNeighborsOutOfRangeEmpty ==
    (adjlist.call.op = "neighbors" /\ adjlist.call.args[1] >= fixed_len(adjlist.graph)) =>
       /\ adjlist.call.result = "ok"
       /\ adjlist.call.returned = <<>>

\* next_edge and end_vertex have one entry for each edge, every edge index
\* stored in first or next_edge is below edge_count(), and next_edge[e] is
\* None or below e.
WellLinked(g) ==
    /\ Len(g.next_edge) = Len(g.end_vertex)
    /\ \A v \in 1..Len(g.first) :
          g.first[v] = None \/ (0 <= g.first[v] /\ g.first[v] < adjlist_edge_count(g))
    /\ \A e \in 0..(Len(g.next_edge) - 1) :
          g.next_edge[e + 1] = None \/ (0 <= g.next_edge[e + 1] /\ g.next_edge[e + 1] < e)

\* The edge indices of the items go down from one item to the next.
StrictlyDecreasingIndices(items) ==
    \A i, j \in 1..Len(items) : i < j => items[i][2] > items[j][2]

\* C35: in every state reachable by pushes next_edge and end_vertex have equal
\* length, every Some(e) in first or next_edge has e < edge_count(), and
\* next_edge[e] is None or less than e; so neighbors(v) ends after at most
\* edge_count() items.
C35_EdgeChainsWellFounded ==
    /\ WellLinked(adjlist.graph)
    /\ adjlist.call.op = "neighbors" =>
          /\ Len(adjlist.call.returned) <= adjlist_edge_count(adjlist.graph)
          /\ StrictlyDecreasingIndices(adjlist.call.returned)
    /\ (adjlist.call.op \in {"transpose", "transpose_transpose"}
          /\ adjlist.call.result = "ok") => WellLinked(adjlist.call.returned)

\* neighbors has yielded as many items as the graph has edges, more than one.
C35_Witness ==
    /\ adjlist.call.op = "neighbors"
    /\ Len(adjlist.call.returned) = adjlist_edge_count(adjlist.graph)
    /\ adjlist_edge_count(adjlist.graph) >= 2
    /\ adjlist_len(adjlist.graph) >= 2

-----------------------------------------------------------------------------
(* Claims about the matrix graph.                                          *)

\* The content of the slot of the pair (c, d) of the matrix graph g.
Slot(g, c, d) == g.adjacencies[to_edge_position_unchecked(g, c, d) + 1]

\* (c, d) and (a, b) are the same pair under the directedness rule.
SamePair(directed, c, d, a, b) ==
    IF directed THEN c = a /\ d = b ELSE {c, d} = {a, b}

\* C2: update_edge(a, b, w) grows the capacity whenever a or b is at or
\* beyond it, so that on return capacity > max(a, b), w is stored in the
\* slot of (a, b), and the slot of every other pair keeps its content.
C2_UpdateEdgeWritesOwnSlot ==
    [][(matrix'.calls = matrix.calls + 1 /\ matrix'.call.op = "update_edge") =>
          /\ matrix'.call.result = "ok"
          /\ matrix'.capacity > Max(matrix'.call.a, matrix'.call.b)
          /\ Slot(matrix', matrix'.call.a, matrix'.call.b) = matrix'.call.weight
          /\ \A c, d \in 0..(matrix.capacity - 1) :
                ~SamePair(matrix.directed, c, d, matrix'.call.a, matrix'.call.b) =>
                   Slot(matrix', c, d) = Slot(matrix, c, d)]_vars

NonEmptySlots(g) == {k \in 1..Len(g.adjacencies) : g.adjacencies[k] # Empty}

\* C4: in every reachable state of the matrix graph the edge counter equals
\* the number of non-empty slots of the adjacency storage.
C4_EdgeCountIsNonEmptySlots == matrix.n_edges = Cardinality(NonEmptySlots(matrix))

\* An edge was removed after the storage of a graph holding edges grew.
C4_Witness ==
    /\ matrix.grown >= 1
    /\ matrix.capacity > MIN_NON_ZERO_CAP - 1
    /\ matrix.call.op = "remove_edge"
    /\ matrix.call.returned # Empty
    /\ matrix.n_edges >= 1

\* C19: a call update_edge(a, b, w2) that follows the call that put w in the
\* slot of (a, b) returns Some(w), a call remove_edge(a, b) that follows it
\* returns w, and the edge counter goes up by one with every slot filled
\* and down by one with every slot cleared.  update_edge is the one call of
\* the matrix graph that adds an edge; its record holds Empty as the value
\* returned, for it returns none.
C19_UpdateReturnsPrevious ==
    [][matrix'.calls = matrix.calls + 1 =>
          LET c == matrix.call
              n == matrix'.call
          IN /\ (c.op = "update_edge" /\ c.result = "ok" /\ n.a = c.a /\ n.b = c.b) =>
                   n.result = "ok" /\ n.returned = c.weight
             /\ (n.result = "ok" /\ n.a < matrix.capacity /\ n.b < matrix.capacity) =>
                   matrix'.n_edges = matrix.n_edges
                      + (IF n.op = "update_edge" /\ Slot(matrix, n.a, n.b) = Empty
                         THEN 1 ELSE 0)
                      - (IF n.op = "remove_edge" /\ Slot(matrix, n.a, n.b) # Empty
                         THEN 1 ELSE 0)]_vars

C21_RemoveOutOfRangePanics ==
    [][(matrix'.calls = matrix.calls + 1 /\ matrix'.call.op = "remove_edge") =>
          /\ (matrix'.call.a >= matrix.capacity \/ matrix'.call.b >= matrix.capacity) =>
                /\ matrix'.call.result = "panic"
                /\ matrix'.adjacencies = matrix.adjacencies
                /\ matrix'.n_edges = matrix.n_edges
          /\ \A c, d \in 0..(matrix.capacity - 1) :
                ~SamePair(matrix.directed, c, d, matrix'.call.a, matrix'.call.b) =>
                   Slot(matrix', c, d) = Slot(matrix, c, d)]_vars

\* C3: growing a flat square matrix from capacity n0 to n1 > n0 moves the
\* value of every (row, column) below n0 from row*n0+column to
\* row*n1+column and leaves every other position below n1*n1 empty, by
\* whichever branch a row is relocated.
C3_GrowthPreservesEntries ==
    grow.done =>
       LET n0 == grow.old_node_capacity
           n1 == grow.new_node_capacity
           moved == {to_flat_square_matrix_position(row, column, n1) + 1 :
                        row \in 0..(n0 - 1), column \in 0..(n0 - 1)}
       IN /\ Len(grow.after.adj) = n1 * n1
          /\ \A row, column \in 0..(n0 - 1) :
                grow.after.adj[to_flat_square_matrix_position(row, column, n1) + 1]
                   = grow.before[to_flat_square_matrix_position(row, column, n0) + 1]
          /\ \A k \in (1..(n1 * n1)) \ moved : grow.after.adj[k] = Empty
          /\ ~grow.after.assert_failed

\* A full matrix was grown with one row moved as a block and another
\* element by element.
C3_Witness ==
    /\ grow.done
    /\ grow.after.block
    /\ grow.after.elementwise
    /\ \A k \in 1..Len(grow.before) : grow.before[k] # Empty


\* The vertices that vary in the items of a scan, in the order yielded.
ScannedVertices(items) == [i \in 1..Len(items) |-> items[i][2]]

StrictlyIncreasing(s) == \A i, j \in 1..Len(s) : i < j => s[i] < s[j]

C36_TopologicalInDegrees ==
    /\ ~topological.underflow
    /\ NoDuplicates(topological.out)
    /\ NoDuplicates(topological.stack)
    /\ \A i \in 1..Len(topological.stack) :
          topological.in_degree[topological.stack[i] + 1] = 0
    /\ \A v \in Vertices(graph) : topological.in_degree[v + 1] >= 0
    /\ Range(topological.out) \cap Range(topological.stack) = {}

\* A vertex reached by parallel edges has been yielded on a graph that also
\* has a cycle, whose vertices keep a positive in-degree.
C36_Witness ==
    /\ topological.exhausted
    /\ \E u \in Vertices(graph) : \E v \in Range(topological.out) :
          Count(children(graph, u), v) >= 2
    /\ \E v \in Vertices(graph) : topological.in_degree[v + 1] > 0
====
